---- MODULE Spec2Model ----
(***************************************************************************)
(* A model of the Person / Address / Course / Enrollment service of        *)
(* SimpleMicroservices/main.py: four in-memory dicts and the request       *)
(* handlers that read and write them.                                      *)
(*                                                                         *)
(* A Python dict keeps its keys in insertion order, and the list handlers  *)
(* return list(d.values()), so a dict is modelled as the sequence of its   *)
(* [k, v] entries in insertion order.  Strings that take part in the       *)
(* enrollment key (uni, course_code, term, and the rendering of year) are  *)
(* sequences of one-character strings, so that the f-string of _enroll_key *)
(* is a real concatenation.  An Optional[...] query parameter is a set of  *)
(* at most one element: {} is None.                                        *)
(***************************************************************************)
EXTENDS Integers, Sequences, FiniteSets, TLC

VARIABLES
    persons, addresses, courses, enrollments,  \* the four dicts of main.py
    last,      \* the handler that ran last, and the response it gave
    created,   \* history: the identities of the 201 creates, in order
    threads    \* the create requests in flight (ConcSpec)

vars == <<persons, addresses, courses, enrollments, last, created, threads>>

(***************************************************************************)
(* Bounds of the model.                                                    *)
(***************************************************************************)
\* The number of records held by the four dicts together.
MaxStored == 2

(***************************************************************************)
(* dict (main.py: persons, addresses, courses, enrollments).               *)
(***************************************************************************)
Keys(d) == {d[i].k : i \in 1..Len(d)}

\* k in d
HasKey(d, k) == \E i \in 1..Len(d) : d[i].k = k

\* d[k], for k in d
DictGet(d, k) == d[CHOOSE i \in 1..Len(d) : d[i].k = k].v

\* d[k] = v, appending at the end although k is already a key
DictSet_AlwaysAppend(d, k, v) == Append(d, [k |-> k, v |-> v])

\* d[k] = v: a new key goes to the end, an existing key keeps its place
DictSet(d, k, v) ==
    IF HasKey(d, k)
    THEN [i \in 1..Len(d) |-> IF d[i].k = k THEN [k |-> k, v |-> v] ELSE d[i]]
    ELSE Append(d, [k |-> k, v |-> v])

\* list(d.values())
Values(d) == [i \in 1..Len(d) |-> d[i].v]

(***************************************************************************)
(* str(int), as the f-string renders {year}.                               *)
(***************************************************************************)
Digits == <<"0", "1", "2", "3", "4", "5", "6", "7", "8", "9">>

RECURSIVE NatToStr(_)
NatToStr(n) ==
    IF n < 10 THEN <<Digits[n + 1]>>
    ELSE Append(NatToStr(n \div 10), Digits[(n % 10) + 1])

IntToStr(n) == IF n < 0 THEN <<"-">> \o NatToStr(-n) ELSE NatToStr(n)

(***************************************************************************)
(* models/my_models.py                                                     *)
(***************************************************************************)
CreditsMin == 0
CreditsMax == 6
MinUniLen == 2

\* Values a client may send, valid or not.
Codes == {"C1", "C2"}
Titles == {"Cloud"}
Instructors == {"Ferguson"}
CreditValues == {3, 4, 7}
Depts == {"COMS"}

Statuses == {"enrolled", "dropped"}

\* (uni, course_code, year, term) as a client may send them: two tuples that
\* differ only in where a "|" stands between uni and course_code, and tuples
\* that differ from (ab, d, 2025, F) in one component each.
Sendable ==
    [uni : {<<"a", "b">>, <<"a", "b", "|", "c">>},
     course_code : {<<"d">>, <<"c", "|", "d">>},
     year : {2025}, term : {<<"F">>}]
    \cup [uni : {<<"a", "b">>}, course_code : {<<"d">>}, year : {-7}, term : {<<"F">>}]
    \cup [uni : {<<"a", "b">>}, course_code : {<<"d">>}, year : {2025}, term : {<<"S">>}]
    \cup [uni : {<<"a">>}, course_code : {<<"d">>}, year : {2025}, term : {<<"F">>}]

\* class Course: the payloads that pass validation
Course ==
    {c \in [code : Codes, title : Titles, instructor : Instructors,
            credits : CreditValues, dept_id : Depts] :
        c.credits >= CreditsMin /\ c.credits <= CreditsMax}

\* class Enrollment: the payloads that pass validation
Enrollment ==
    {e \in {[uni |-> t.uni, course_code |-> t.course_code, year |-> t.year,
             term |-> t.term, status |-> s] : t \in Sendable, s \in Statuses} :
        Len(e.uni) >= MinUniLen}

\* The path parameters of /enrollments/{uni}/{course_code}/{year}/{term};
\* the path does not validate the length of uni.
EnrollPath == Sendable

\* def _enroll_key
_enroll_key(uni, course_code, year, term) ==
    uni \o <<"|">> \o course_code \o <<"|">> \o IntToStr(year) \o <<"|">> \o term

KeyOf(e) == _enroll_key(e.uni, e.course_code, e.year, e.term)

TupleOf(e) == <<e.uni, e.course_code, e.year, e.term>>

(***************************************************************************)
(* A handler's outcome: the HTTP status, the response body (the detail of  *)
(* an HTTPException, or the returned value), and the four dicts as the     *)
(* handler leaves them.                                                    *)
(***************************************************************************)
Outcome(status, body, p, a, c, e) ==
    [status |-> status, body |-> body,
     persons |-> p, addresses |-> a, courses |-> c, enrollments |-> e]

\* raise HTTPException(status_code, detail): no dict is written
Raise(status, detail) ==
    Outcome(status, detail, persons, addresses, courses, enrollments)

\* return body, having written nothing
Return(status, body) ==
    Outcome(status, body, persons, addresses, courses, enrollments)

(***************************************************************************)
(* models/person.py, models/address.py.  A model object is the function    *)
(* from its field names to their values; model_dump() is that function.    *)
(***************************************************************************)
UUIDs == {"u1", "u2"}

AddressFields == {"street", "city", "state", "postal_code", "country"}
PersonFields ==
    {"uni", "first_name", "last_name", "email", "phone", "birth_date", "addresses"}

\* Every value of a field is an opaque string, the empty list of a person's
\* embedded addresses included.  What a create sends for a field:
Sent(f) ==
    CASE f = "city" -> "NYC"
      [] f = "first_name" -> "Ann"
      [] f = "addresses" -> "[]"
      [] OTHER -> f

\* What a PATCH may send for a field
FieldValues(f) ==
    CASE f = "id" -> UUIDs
      [] f = "city" -> {"LA"}
      [] f = "first_name" -> {"Bob"}
      [] OTHER -> {Sent(f)}

\* The functions on D that give every field one of its values
Payloads(D) == {r \in [D -> UNION {FieldValues(f) : f \in D}] :
                    \A f \in D : r[f] \in FieldValues(f)}

\* AddressCreate: the fields of an address and its id
AddressCreate ==
    {[f \in AddressFields \cup {"id"} |-> IF f = "id" THEN id ELSE Sent(f)] :
        id \in UUIDs}

\* PersonCreate: the fields of a person, without an id
PersonCreate == {[f \in PersonFields |-> Sent(f)]}

\* A PATCH body as the client sends it: any of these keys, or none
RawAddressUpdate == UNION {Payloads(D) : D \in SUBSET {"id", "city"}}
RawPersonUpdate == UNION {Payloads(D) : D \in SUBSET {"id", "first_name"}}

\* AddressUpdate(**body): every field of an address optional, nothing else kept
AddressUpdate(body) == [f \in DOMAIN body \cap AddressFields |-> body[f]]

\* PersonUpdate(**body): every field of a person optional, nothing else kept
PersonUpdate(body) == [f \in DOMAIN body \cap PersonFields |-> body[f]]

\* AddressRead(**d)
AddressRead(d) == [f \in AddressFields \cup {"id"} |-> d[f]]

\* PersonRead(**d): the id is the one given, or else a new uuid4()
PersonRead(d, uuid4) ==
    [f \in PersonFields \cup {"id"} |->
        IF f \in DOMAIN d THEN d[f] ELSE uuid4]

\* stored.update(upd) with upd dumped without exclude_unset: an unset field is None
DictUpdate_Unset(stored, upd) ==
    [f \in DOMAIN stored \cup DOMAIN upd |->
        IF f \in DOMAIN upd THEN upd[f]
        ELSE IF f = "id" THEN stored[f] ELSE "None"]

\* stored.update(upd)
DictUpdate(stored, upd) ==
    [f \in DOMAIN stored \cup DOMAIN upd |->
        IF f \in DOMAIN upd THEN upd[f] ELSE stored[f]]

(***************************************************************************)
(* Address endpoints                                                       *)
(***************************************************************************)
create_address_result(address) ==
    IF HasKey(addresses, address["id"])
    THEN Raise(400, "Address with this ID already exists")
    ELSE LET written == DictSet(addresses, address["id"], AddressRead(address))
         IN  Outcome(201, DictGet(written, address["id"]),
                     persons, written, courses, enrollments)

get_address_result(address_id) ==
    IF ~HasKey(addresses, address_id)
    THEN Raise(404, "Address not found")
    ELSE Return(200, DictGet(addresses, address_id))

\* update_address that stores a new address when the id is unknown
update_address_Upsert(address_id, update) ==
    LET stored ==
            IF HasKey(addresses, address_id)
            THEN DictUpdate(DictGet(addresses, address_id), update)
            ELSE [f \in AddressFields \cup {"id"} |->
                    IF f \in DOMAIN update THEN update[f]
                    ELSE IF f = "id" THEN address_id ELSE "None"]
        written == DictSet(addresses, address_id, AddressRead(stored))
    IN  Outcome(200, DictGet(written, address_id),
                persons, written, courses, enrollments)

update_address_result(address_id, update) ==
    IF ~HasKey(addresses, address_id)
    THEN Raise(404, "Address not found")
    ELSE LET stored == DictUpdate(DictGet(addresses, address_id), update)
             written == DictSet(addresses, address_id, AddressRead(stored))
         IN  Outcome(200, DictGet(written, address_id),
                     persons, written, courses, enrollments)

(***************************************************************************)
(* Person endpoints                                                        *)
(***************************************************************************)
create_person_result(person, uuid4) ==
    LET person_read == PersonRead(person, uuid4)
    IN  Outcome(201, person_read,
                DictSet(persons, person_read["id"], person_read),
                addresses, courses, enrollments)

get_person_result(person_id) ==
    IF ~HasKey(persons, person_id)
    THEN Raise(404, "Person not found")
    ELSE Return(200, DictGet(persons, person_id))

\* update_person that merges update.model_dump() without exclude_unset
update_person_Unset(person_id, update) ==
    IF ~HasKey(persons, person_id)
    THEN Raise(404, "Person not found")
    ELSE LET stored == DictUpdate_Unset(DictGet(persons, person_id), update)
             written == DictSet(persons, person_id, PersonRead(stored, person_id))
         IN  Outcome(200, DictGet(written, person_id),
                     written, addresses, courses, enrollments)

\* stored holds the id it was dumped with, so PersonRead generates none
update_person_result(person_id, update) ==
    IF ~HasKey(persons, person_id)
    THEN Raise(404, "Person not found")
    ELSE LET stored == DictUpdate(DictGet(persons, person_id), update)
             written == DictSet(persons, person_id, PersonRead(stored, person_id))
         IN  Outcome(200, DictGet(written, person_id),
                     written, addresses, courses, enrollments)

(***************************************************************************)
(* Course endpoints                                                        *)
(***************************************************************************)
\* create_course without the membership test
create_course_NoCheck(course) ==
    Outcome(201, course, persons, addresses,
            DictSet(courses, course.code, course), enrollments)

create_course_result(course) ==
    IF HasKey(courses, course.code)
    THEN Raise(400, "Course with this code already exists")
    ELSE Outcome(201, course, persons, addresses,
                 DictSet(courses, course.code, course), enrollments)

\* The query parameters of GET /courses
CourseFilter ==
    [code : {{}, {"C1"}}, dept_id : {{}, {"EE"}},
     instructor : {{}, {"Ferguson"}},
     min_credits : {{}, {4}}, max_credits : {{}, {3}}]

Only(s) == CHOOSE x \in s : TRUE

\* list_courses with c.credits > min_credits
list_courses_StrictMin(f) ==
    LET r0 == Values(courses)
        r1 == IF f.code # {} THEN SelectSeq(r0, LAMBDA c : c.code = Only(f.code)) ELSE r0
        r2 == IF f.dept_id # {} THEN SelectSeq(r1, LAMBDA c : c.dept_id = Only(f.dept_id)) ELSE r1
        r3 == IF f.instructor # {} THEN SelectSeq(r2, LAMBDA c : c.instructor = Only(f.instructor)) ELSE r2
        r4 == IF f.min_credits # {} THEN SelectSeq(r3, LAMBDA c : c.credits > Only(f.min_credits)) ELSE r3
        r5 == IF f.max_credits # {} THEN SelectSeq(r4, LAMBDA c : c.credits <= Only(f.max_credits)) ELSE r4
    IN  Return(200, r5)

list_courses_result(f) ==
    LET r0 == Values(courses)
        r1 == IF f.code # {} THEN SelectSeq(r0, LAMBDA c : c.code = Only(f.code)) ELSE r0
        r2 == IF f.dept_id # {} THEN SelectSeq(r1, LAMBDA c : c.dept_id = Only(f.dept_id)) ELSE r1
        r3 == IF f.instructor # {} THEN SelectSeq(r2, LAMBDA c : c.instructor = Only(f.instructor)) ELSE r2
        r4 == IF f.min_credits # {} THEN SelectSeq(r3, LAMBDA c : c.credits >= Only(f.min_credits)) ELSE r3
        r5 == IF f.max_credits # {} THEN SelectSeq(r4, LAMBDA c : c.credits <= Only(f.max_credits)) ELSE r4
    IN  Return(200, r5)

get_course_result(course_code) ==
    IF ~HasKey(courses, course_code)
    THEN Raise(404, "Course not found")
    ELSE Return(200, DictGet(courses, course_code))

(***************************************************************************)
(* Enrollment endpoints                                                    *)
(***************************************************************************)
\* create_enrollment with uni and course_code swapped in the call of _enroll_key
create_enrollment_Swapped(enrollment) ==
    LET key == _enroll_key(enrollment.course_code, enrollment.uni,
                           enrollment.year, enrollment.term)
    IN  IF HasKey(enrollments, key)
        THEN Raise(400, "Enrollment already exists for this (uni, course, year, term)")
        ELSE Outcome(201, enrollment, persons, addresses, courses,
                     DictSet(enrollments, key, enrollment))

create_enrollment_result(enrollment) ==
    LET key == _enroll_key(enrollment.uni, enrollment.course_code,
                          enrollment.year, enrollment.term)
    IN  IF HasKey(enrollments, key)
        THEN Raise(400, "Enrollment already exists for this (uni, course, year, term)")
        ELSE Outcome(201, enrollment, persons, addresses, courses,
                     DictSet(enrollments, key, enrollment))

\* The query parameters of GET /enrollments
EnrollmentFilter ==
    [uni : {{}, {<<"a", "b">>}}, course_code : {{}, {<<"d">>}},
     year : {{}, {2025}}, term : {{}, {<<"F">>}}, status : {{}, {"enrolled"}}]

list_enrollments_result(f) ==
    LET r0 == Values(enrollments)
        r1 == IF f.uni # {} THEN SelectSeq(r0, LAMBDA e : e.uni = Only(f.uni)) ELSE r0
        r2 == IF f.course_code # {} THEN SelectSeq(r1, LAMBDA e : e.course_code = Only(f.course_code)) ELSE r1
        r3 == IF f.year # {} THEN SelectSeq(r2, LAMBDA e : e.year = Only(f.year)) ELSE r2
        r4 == IF f.term # {} THEN SelectSeq(r3, LAMBDA e : e.term = Only(f.term)) ELSE r3
        r5 == IF f.status # {} THEN SelectSeq(r4, LAMBDA e : e.status = Only(f.status)) ELSE r4
    IN  Return(200, r5)

get_enrollment_result(uni, course_code, year, term) ==
    LET key == _enroll_key(uni, course_code, year, term)
    IN  IF ~HasKey(enrollments, key)
        THEN Raise(404, "Enrollment not found")
        ELSE Return(200, DictGet(enrollments, key))

\* update_enrollment_status that builds the record from the path parameters
update_enrollment_status_FromPath(uni, course_code, year, term, status) ==
    LET key == _enroll_key(uni, course_code, year, term)
    IN  IF ~HasKey(enrollments, key)
        THEN Raise(404, "Enrollment not found")
        ELSE LET current == [uni |-> uni, course_code |-> course_code,
                             year |-> year, term |-> term, status |-> status]
                 written == DictSet(enrollments, key, current)
             IN  Outcome(200, DictGet(written, key), persons, addresses, courses, written)

update_enrollment_status_result(uni, course_code, year, term, status) ==
    LET key == _enroll_key(uni, course_code, year, term)
    IN  IF ~HasKey(enrollments, key)
        THEN Raise(404, "Enrollment not found")
        ELSE LET current == [DictGet(enrollments, key) EXCEPT !.status = status]
                 written == DictSet(enrollments, key, current)
             IN  Outcome(200, DictGet(written, key), persons, addresses, courses, written)

(***************************************************************************)
(* Requests handled one at a time: each action is one whole handler.       *)
(***************************************************************************)
Stored(o) ==
    Len(o.persons) + Len(o.addresses) + Len(o.courses) + Len(o.enrollments)

Handle(op, o) ==
    /\ Stored(o) <= MaxStored
    /\ persons' = o.persons
    /\ addresses' = o.addresses
    /\ courses' = o.courses
    /\ enrollments' = o.enrollments
    /\ last' = [op |-> op, status |-> o.status, body |-> o.body]
    /\ created' =
         IF op = "create_course" /\ o.status = 201
         THEN [created EXCEPT !.courses = Append(@, o.body.code)]
         ELSE IF op = "create_enrollment" /\ o.status = 201
         THEN [created EXCEPT !.enrollments = Append(@, TupleOf(o.body))]
         ELSE created
    /\ UNCHANGED threads

create_address ==
    \E a \in AddressCreate : Handle("create_address", create_address_result(a))

get_address == \E id \in UUIDs : Handle("get_address", get_address_result(id))

update_address ==
    \E id \in UUIDs, body \in RawAddressUpdate :
        Handle("update_address", update_address_result(id, AddressUpdate(body)))

\* uuid4() may return any UUID
create_person ==
    \E p \in PersonCreate, uuid4 \in UUIDs :
        Handle("create_person", create_person_result(p, uuid4))

get_person == \E id \in UUIDs : Handle("get_person", get_person_result(id))

update_person ==
    \E id \in UUIDs, body \in RawPersonUpdate :
        Handle("update_person", update_person_result(id, PersonUpdate(body)))

create_course == \E c \in Course : Handle("create_course", create_course_result(c))

list_courses == \E f \in CourseFilter : Handle("list_courses", list_courses_result(f))

get_course == \E code \in Codes : Handle("get_course", get_course_result(code))

create_enrollment ==
    \E e \in Enrollment : Handle("create_enrollment", create_enrollment_result(e))

list_enrollments ==
    \E f \in EnrollmentFilter : Handle("list_enrollments", list_enrollments_result(f))

get_enrollment ==
    \E p \in EnrollPath :
        Handle("get_enrollment", get_enrollment_result(p.uni, p.course_code, p.year, p.term))

update_enrollment_status ==
    \E p \in EnrollPath, s \in Statuses :
        Handle("update_enrollment_status",
               update_enrollment_status_result(p.uni, p.course_code, p.year, p.term, s))

Init ==
    /\ persons = <<>>
    /\ addresses = <<>>
    /\ courses = <<>>
    /\ enrollments = <<>>
    /\ last = [op |-> "none", status |-> 0, body |-> "none"]
    /\ created = [courses |-> <<>>, enrollments |-> <<>>]
    /\ threads = <<>>

Next ==
    \/ create_address
    \/ get_address
    \/ update_address
    \/ create_person
    \/ get_person
    \/ update_person
    \/ create_course
    \/ list_courses
    \/ get_course
    \/ create_enrollment
    \/ list_enrollments
    \/ get_enrollment
    \/ update_enrollment_status

Spec == Init /\ [][Next]_vars

(***************************************************************************)
(* Two create requests in flight at once.  FastAPI runs a def handler in a *)
(* thread pool, and nothing in main.py locks a dict, so the membership     *)
(* test of a create and its write are two steps that another request may   *)
(* come between.                                                           *)
(***************************************************************************)
Threads == {"t1", "t2"}

Started ==
    {[op |-> "create_course", payload |-> c, pc |-> "check", status |-> 0] :
        c \in Course}
    \cup {[op |-> "create_enrollment", payload |-> e, pc |-> "check", status |-> 0] :
        e \in Enrollment}

\* courses[course.code] = course, keyed by the title instead
course_written_ByTitle(course) == DictSet(courses, course.title, course)

\* courses[course.code] = course
course_written(course) == DictSet(courses, course.code, course)

\* enrollments[key] = enrollment
enrollment_written(enrollment) ==
    DictSet(enrollments, KeyOf(enrollment), enrollment)

Finish(t, status) ==
    threads' = [threads EXCEPT ![t].pc = "done", ![t].status = status]

\* if course.code in courses: raise HTTPException(400)
check_course(t) ==
    /\ threads[t].op = "create_course" /\ threads[t].pc = "check"
    /\ IF HasKey(courses, threads[t].payload.code)
       THEN Finish(t, 400)
       ELSE threads' = [threads EXCEPT ![t].pc = "write"]
    /\ UNCHANGED <<persons, addresses, courses, enrollments, last, created>>

\* courses[course.code] = course; return course
write_course(t) ==
    /\ threads[t].op = "create_course" /\ threads[t].pc = "write"
    /\ courses' = course_written(threads[t].payload)
    /\ last' = [op |-> "create_course", status |-> 201, body |-> threads[t].payload]
    /\ Finish(t, 201)
    /\ UNCHANGED <<persons, addresses, enrollments, created>>

\* if key in enrollments: raise HTTPException(400)
check_enrollment(t) ==
    /\ threads[t].op = "create_enrollment" /\ threads[t].pc = "check"
    /\ IF HasKey(enrollments, KeyOf(threads[t].payload))
       THEN Finish(t, 400)
       ELSE threads' = [threads EXCEPT ![t].pc = "write"]
    /\ UNCHANGED <<persons, addresses, courses, enrollments, last, created>>

\* enrollments[key] = enrollment; return enrollment
write_enrollment(t) ==
    /\ threads[t].op = "create_enrollment" /\ threads[t].pc = "write"
    /\ enrollments' = enrollment_written(threads[t].payload)
    /\ last' = [op |-> "create_enrollment", status |-> 201, body |-> threads[t].payload]
    /\ Finish(t, 201)
    /\ UNCHANGED <<persons, addresses, courses, created>>

\* The requests arrive when the dicts are empty or hold one record.
ConcInit ==
    /\ persons = <<>>
    /\ addresses = <<>>
    /\ courses \in {<<>>} \cup {<<[k |-> c.code, v |-> c]>> : c \in Course}
    /\ enrollments \in {<<>>} \cup {<<[k |-> KeyOf(e), v |-> e]>> : e \in Enrollment}
    /\ last = [op |-> "none", status |-> 0, body |-> "none"]
    /\ created = [courses |-> <<>>, enrollments |-> <<>>]
    /\ threads \in [Threads -> Started]

ConcNext ==
    \E t \in Threads :
        \/ check_course(t)
        \/ write_course(t)
        \/ check_enrollment(t)
        \/ write_enrollment(t)

ConcSpec == ConcInit /\ [][ConcNext]_vars

(***************************************************************************)
(* Properties.  A handler's outcome is a function of the dicts and of the  *)
(* request, so a statement about every request in every reachable state    *)
(* is an invariant that quantifies over the requests.                      *)
(***************************************************************************)
\* The handler wrote to no dict.
Unwritten(o) ==
    /\ o.persons = persons
    /\ o.addresses = addresses
    /\ o.courses = courses
    /\ o.enrollments = enrollments

\* The same keys in the same places, and every entry but the one at k as it was.
OnlyEntryChanged(old, new, k) ==
    /\ Len(new) = Len(old)
    /\ \A i \in 1..Len(old) :
        /\ new[i].k = old[i].k
        /\ old[i].k # k => new[i] = old[i]

\* C1: a create_course, create_enrollment or create_address whose key is
\* already a key of its dict gets 400, and no dict is written: the record
\* stored under the key and every other entry stay as they were.
C1_DuplicateCreateRejected ==
    /\ \A c \in Course :
        HasKey(courses, c.code) =>
            LET o == create_course_result(c)
            IN  o.status = 400 /\ Unwritten(o)
    /\ \A e \in Enrollment :
        HasKey(enrollments, KeyOf(e)) =>
            LET o == create_enrollment_result(e)
            IN  o.status = 400 /\ Unwritten(o)
    /\ \A a \in AddressCreate :
        HasKey(addresses, a["id"]) =>
            LET o == create_address_result(a)
            IN  o.status = 400 /\ Unwritten(o)

C1_Witness ==
    /\ last.op \in {"create_course", "create_enrollment", "create_address"}
    /\ last.status = 400
    /\ Len(courses) + Len(enrollments) + Len(addresses) = MaxStored

\* C2: _enroll_key is injective on the tuples the Enrollment schema accepts,
\* so create_enrollment answers 400 only when a stored enrollment has the
\* payload's (uni, course_code, year, term).
C2_KeyInjective ==
    /\ \A e \in Enrollment :
        create_enrollment_result(e).status = 400 =>
            \E i \in 1..Len(enrollments) : TupleOf(enrollments[i].v) = TupleOf(e)
    /\ \A i \in 1..Len(enrollments), e \in Enrollment :
        TupleOf(enrollments[i].v) # TupleOf(e) => enrollments[i].k # KeyOf(e)

\* C3: update_enrollment_status on a key of enrollments gets 200 and rewrites
\* only the status of the record under that key: its uni, course_code, year
\* and term, the keys and their order, every other enrollment and the other
\* three dicts stay as they were.
C3_StatusUpdateFrame ==
    \A p \in EnrollPath, s \in Statuses :
        LET key == _enroll_key(p.uni, p.course_code, p.year, p.term)
        IN  HasKey(enrollments, key) =>
            LET o == update_enrollment_status_result(p.uni, p.course_code, p.year, p.term, s)
                old == DictGet(enrollments, key)
                new == DictGet(o.enrollments, key)
            IN  /\ o.status = 200
                /\ o.persons = persons
                /\ o.addresses = addresses
                /\ o.courses = courses
                /\ OnlyEntryChanged(enrollments, o.enrollments, key)
                /\ new.uni = old.uni
                /\ new.course_code = old.course_code
                /\ new.year = old.year
                /\ new.term = old.term
                /\ new.status = s
                /\ o.body = new

C3_Witness ==
    /\ last.op = "update_enrollment_status"
    /\ last.status = 200
    /\ Len(enrollments) = 2
    /\ \E i \in 1..2 : enrollments[i].v = last.body /\ last.body.status = "dropped"
    /\ \E i \in 1..2 : enrollments[i].v.status = "enrolled"

C5_UpdateUnknown ==
    /\ \A id \in UUIDs \ Keys(persons), body \in RawPersonUpdate :
        LET o == update_person_result(id, PersonUpdate(body))
        IN  o.status = 404 /\ Unwritten(o)
    /\ \A id \in UUIDs \ Keys(addresses), body \in RawAddressUpdate :
        LET o == update_address_result(id, AddressUpdate(body))
        IN  o.status = 404 /\ Unwritten(o)
    /\ \A p \in EnrollPath, s \in Statuses :
        ~HasKey(enrollments, _enroll_key(p.uni, p.course_code, p.year, p.term)) =>
            LET o == update_enrollment_status_result(p.uni, p.course_code, p.year, p.term, s)
            IN  o.status = 404 /\ Unwritten(o)

C5_Witness ==
    /\ last.op \in {"update_person", "update_address", "update_enrollment_status"}
    /\ last.status = 404
    /\ Len(persons) + Len(addresses) + Len(enrollments) = MaxStored

\* A course, an enrollment passes every filter that is given.
MatchesCourse(f, c) ==
    /\ f.code = {} \/ f.code = {c.code}
    /\ f.dept_id = {} \/ f.dept_id = {c.dept_id}
    /\ f.instructor = {} \/ f.instructor = {c.instructor}
    /\ \A m \in f.min_credits : m <= c.credits
    /\ \A m \in f.max_credits : c.credits <= m

MatchesEnrollment(f, e) ==
    /\ f.uni = {} \/ f.uni = {e.uni}
    /\ f.course_code = {} \/ f.course_code = {e.course_code}
    /\ f.year = {} \/ f.year = {e.year}
    /\ f.term = {} \/ f.term = {e.term}
    /\ f.status = {} \/ f.status = {e.status}

\* The number of places of sequence s that hold x
Count(s, x) == Cardinality({i \in 1..Len(s) : s[i] = x})

\* The stored records, in the order of their creation
CoursesAsCreated ==
    [i \in 1..Len(created.courses) |->
        CHOOSE c \in {courses[j].v : j \in 1..Len(courses)} :
            c.code = created.courses[i]]

EnrollmentsAsCreated ==
    [i \in 1..Len(created.enrollments) |->
        CHOOSE e \in {enrollments[j].v : j \in 1..Len(enrollments)} :
            TupleOf(e) = created.enrollments[i]]

\* C6: list_courses and list_enrollments return the stored records that pass
\* every given filter (both credit bounds inclusive), each once, in the
\* order of the records' creation, whatever status updates came later; with
\* no filter they return every stored record.
C6_ListFilters ==
    /\ Len(created.courses) = Len(courses)
    /\ Len(created.enrollments) = Len(enrollments)
    /\ \A j \in 1..Len(courses) : Count(created.courses, courses[j].v.code) = 1
    /\ \A j \in 1..Len(enrollments) :
        Count(created.enrollments, TupleOf(enrollments[j].v)) = 1
    /\ \A f \in CourseFilter :
        LET o == list_courses_result(f)
        IN  /\ o.status = 200
            /\ Unwritten(o)
            /\ o.body = SelectSeq(CoursesAsCreated, LAMBDA c : MatchesCourse(f, c))
    /\ \A f \in EnrollmentFilter :
        LET o == list_enrollments_result(f)
        IN  /\ o.status = 200
            /\ Unwritten(o)
            /\ o.body = SelectSeq(EnrollmentsAsCreated, LAMBDA e : MatchesEnrollment(f, e))

\* Both listings have cut a store of two records down to one, and the first
\* enrollment created has had its status updated since.
C6_Witness ==
    /\ last.op = "list_enrollments"
    /\ last.status = 200
    /\ Len(enrollments) = 2
    /\ enrollments[1].v.status = "dropped"
    /\ enrollments[2].v.status = "enrolled"
    /\ last.body = <<enrollments[2].v>>

\* C8: create_person gets 400 when the id of the person it is about to store
\* is a key of persons, and the person stored under that id stays as it was.
C8_CreatePersonConflict ==
    \A p \in PersonCreate, uuid4 \in Keys(persons) :
        LET o == create_person_result(p, uuid4)
        IN  o.status = 400 /\ o.persons = persons

\* C9: every course is stored under its code and every enrollment under the
\* _enroll_key of its own fields, so no two stored courses share a code and
\* no two stored enrollments share a (uni, course_code, year, term).
C9_StoredUnderOwnKey ==
    /\ \A i \in 1..Len(courses) : courses[i].k = courses[i].v.code
    /\ \A i \in 1..Len(enrollments) : enrollments[i].k = KeyOf(enrollments[i].v)
    /\ \A i, j \in 1..Len(courses) :
        i # j => courses[i].v.code # courses[j].v.code
    /\ \A i, j \in 1..Len(enrollments) :
        i # j => TupleOf(enrollments[i].v) # TupleOf(enrollments[j].v)

C9_Witness ==
    /\ Len(enrollments) = 2
    /\ last.op = "update_enrollment_status"
    /\ last.status = 200
    /\ enrollments[1].v.uni # enrollments[2].v.uni
    /\ enrollments[1].v.year # enrollments[2].v.year

\* C7: a create_course or create_enrollment that gets 201 is followed by a
\* get of the payload's identity that returns the payload, and every later
\* request that does not update that record leaves the get's answer as it is
\* (a step that leaves a dict as it was leaves every get on it as it was).
C7_CreateThenGet ==
    [][ /\ \A c \in Course :
            (/\ last'.op = "create_course"
             /\ last'.status = 201
             /\ Handle("create_course", create_course_result(c)))
            => LET g == get_course_result(c.code)'
               IN  g.status = 200 /\ g.body = c
        /\ \A e \in Enrollment :
            (/\ last'.op = "create_enrollment"
             /\ last'.status = 201
             /\ Handle("create_enrollment", create_enrollment_result(e)))
            => LET g == get_enrollment_result(e.uni, e.course_code, e.year, e.term)'
               IN  g.status = 200 /\ g.body = e
        /\ courses' # courses => \A code \in Codes :
            LET g == get_course_result(code)
                h == get_course_result(code)'
            IN  g.status = 200 => h.status = 200 /\ h.body = g.body
        /\ enrollments' # enrollments => \A p \in EnrollPath :
            LET g == get_enrollment_result(p.uni, p.course_code, p.year, p.term)
                h == get_enrollment_result(p.uni, p.course_code, p.year, p.term)'
                updated ==
                    /\ last'.op = "update_enrollment_status"
                    /\ last'.status = 200
                    /\ KeyOf(last'.body) = KeyOf(p)
            IN  g.status = 200 /\ ~updated => h.status = 200 /\ h.body = g.body
      ]_vars

\* A get answers with a record created two requests or more before.
C7_Witness ==
    /\ last.op = "get_enrollment"
    /\ last.status = 200
    /\ Len(enrollments) = 2
    /\ last.body = enrollments[1].v
    /\ last.body.status = "dropped"
    /\ Len(courses) = 0

SameKey(t, u) ==
    /\ threads[t].op = threads[u].op
    /\ IF threads[t].op = "create_course"
       THEN threads[t].payload.code = threads[u].payload.code
       ELSE KeyOf(threads[t].payload) = KeyOf(threads[u].payload)

\* The record that the two requests' dict holds under the key of t's payload
StoredFor(t) ==
    IF threads[t].op = "create_course"
    THEN SelectSeq(courses, LAMBDA x : x.k = threads[t].payload.code)
    ELSE SelectSeq(enrollments, LAMBDA x : x.k = KeyOf(threads[t].payload))

Racing(t, u) ==
    /\ t # u
    /\ SameKey(t, u)
    /\ threads[t].pc = "done"
    /\ threads[u].pc = "done"

\* C10 as stated: of two concurrent creates with the same key at most one
\* gets 201, and the record left in the dict is its payload.
C10_AtMostOneCreated ==
    \A t, u \in Threads :
        Racing(t, u) =>
            /\ ~(threads[t].status = 201 /\ threads[u].status = 201)
            /\ threads[t].status = 201 =>
                StoredFor(t) = <<[k |-> StoredFor(t)[1].k, v |-> threads[t].payload]>>

\* C10 as amended: of two concurrent creates with the same key, one, both or
\* neither get 201 (both, when both membership tests run before either
\* write); the dict then holds one entry under the key, and when a request
\* got 201 its record is the payload of a request that got 201, the one that
\* wrote last.
C10_RacingCreates ==
    \A t, u \in Threads :
        Racing(t, u) =>
            /\ threads[t].status \in {201, 400}
            /\ Len(StoredFor(t)) = 1
            /\ (threads[t].status = 201 \/ threads[u].status = 201) =>
                /\ \E w \in {t, u} :
                    /\ threads[w].status = 201
                    /\ StoredFor(t)[1].v = threads[w].payload
                /\ StoredFor(t)[1].v = last.body

\* Both requests got 201 and the second write replaced the first one's record.
C10_Witness ==
    /\ Racing("t1", "t2")
    /\ threads["t1"].status = 201
    /\ threads["t2"].status = 201
    /\ threads["t1"].payload # threads["t2"].payload
    /\ threads["t1"].op = "create_course"
    /\ StoredFor("t1")[1].v = threads["t1"].payload

====
